---------------------------- MODULE Spec2Model ----------------------------
(***************************************************************************)
(* NeuraResume backend: the response normalizer (clean_json_text), the     *)
(* completion invoker (generate_json), the /analyze request handler and    *)
(* the /generate-answers request handler.                                  *)
(*                                                                         *)
(* A text is a sequence of one-character strings.  A Python value is a     *)
(* record [type, v]: None, bool, int, str, list, dict.                     *)
(***************************************************************************)
EXTENDS Integers, Sequences, FiniteSets, TLC

(***************************************************************************)
(* Python str helpers                                                      *)
(***************************************************************************)

\* str.isspace() of one character; also the class \s of re
IsSpace(c) == c \in {" ", "\n", "\t", "\r"}

\* str.strip()
Strip(t) ==
  LET n == Len(t)
      first == CHOOSE i \in 1..(n + 1) :
                 /\ (i = n + 1 \/ ~IsSpace(t[i]))
                 /\ \A j \in 1..(i - 1) : IsSpace(t[j])
      last == CHOOSE i \in 0..n :
                 /\ (i = 0 \/ ~IsSpace(t[i]))
                 /\ \A j \in (i + 1)..n : IsSpace(t[j])
  IN IF first > last THEN <<>> ELSE SubSeq(t, first, last)

\* str.startswith(p)
StartsWith(t, p) == Len(t) >= Len(p) /\ SubSeq(t, 1, Len(p)) = p

\* the slice t[i-1:] of Python, with i a 1-based index
From(t, i) == SubSeq(t, i, Len(t))

\* the character U+0060 (a string holding it does not lex in TLA+)
Tick == "tick"

Fence == <<Tick, Tick, Tick>>
JsonTag == <<"j", "s", "o", "n">>

\* index of the first character at or after i that is not whitespace
SkipSpace(t, i) ==
  CHOOSE k \in i..(Len(t) + 1) :
    /\ (k = Len(t) + 1 \/ ~IsSpace(t[k]))
    /\ \A j \in i..(k - 1) : IsSpace(t[j])

(***************************************************************************)
(* clean_json_text                                                         *)
(***************************************************************************)

\* a variant whose pattern has no language tag: ^(fence)\s*
SubLeadingFenceNoTag(t) ==
  IF ~StartsWith(t, Fence) THEN t
  ELSE From(From(t, 4), SkipSpace(From(t, 4), 1))

\* re.sub(r"^(fence)(?:json)?\s*", "", text)
SubLeadingFence(t) ==
  IF ~StartsWith(t, Fence) THEN t
  ELSE LET afterFence == From(t, 4)
           afterTag == IF StartsWith(afterFence, JsonTag)
                       THEN From(afterFence, 5) ELSE afterFence
       IN From(afterTag, SkipSpace(afterTag, 1))

\* the positions where $ matches: the end of the text, and just before a
\* newline that ends the text
DollarAt(t, e) ==
  \/ e = Len(t) + 1
  \/ e = Len(t) /\ Len(t) > 0 /\ t[Len(t)] = "\n"

\* \s*(fence)$ matches the text from index i
TrailingMatchAt(t, i) ==
  LET k == SkipSpace(t, i)
  IN /\ k + 2 <= Len(t)
     /\ SubSeq(t, k, k + 2) = Fence
     /\ DollarAt(t, k + 3)

\* re.sub(r"\s*(fence)$", "", text): the leftmost match is removed
SubTrailingFence(t) ==
  IF \E i \in 1..Len(t) : TrailingMatchAt(t, i)
  THEN LET i == CHOOSE i \in 1..Len(t) :
                  /\ TrailingMatchAt(t, i)
                  /\ \A j \in 1..(i - 1) : ~TrailingMatchAt(t, j)
           e == SkipSpace(t, i) + 3
       IN SubSeq(t, 1, i - 1) \o From(t, e)
  ELSE t

clean_json_text(text) ==
  LET t1 == Strip(text)
      t2 == IF StartsWith(t1, Fence)
            THEN SubTrailingFence(SubLeadingFence(t1))
            ELSE t1
  IN Strip(t2)

(***************************************************************************)
(* json.loads                                                              *)
(***************************************************************************)

None == [type |-> "None", v |-> <<>>]
PyBool(b) == [type |-> "bool", v |-> b]
PyInt(digits) == [type |-> "int", v |-> digits]
PyStr(s) == [type |-> "str", v |-> s]
PyList(items) == [type |-> "list", v |-> items]
PyDict(f) == [type |-> "dict", v |-> f]

\* the whitespace of the JSON grammar
IsJsonSpace(c) == c \in {" ", "\n", "\t", "\r"}

SkipJsonSpace(t, i) ==
  CHOOSE k \in i..(Len(t) + 1) :
    /\ (k = Len(t) + 1 \/ ~IsJsonSpace(t[k]))
    /\ \A j \in i..(k - 1) : IsJsonSpace(t[j])

IsDigit(c) == c \in {"0", "1", "2", "3", "4", "5", "6", "7", "8", "9"}

\* a failed decode (JSONDecodeError) and a successful one
Bad == [ok |-> FALSE, val |-> None, pos |-> 0]
Good(val, pos) == [ok |-> TRUE, val |-> val, pos |-> pos]

\* the text has the word w at index i
HasWord(t, i, w) == i + Len(w) - 1 <= Len(t) /\ SubSeq(t, i, i + Len(w) - 1) = w

\* a string literal whose opening quote is at index i: up to the next quote,
\* no control character inside (strict mode)
ParseString(t, i) ==
  IF \E k \in (i + 1)..Len(t) : t[k] = "\""
  THEN LET k == CHOOSE k \in (i + 1)..Len(t) :
                  t[k] = "\"" /\ \A j \in (i + 1)..(k - 1) : t[j] # "\""
           body == SubSeq(t, i + 1, k - 1)
       IN IF \E j \in 1..Len(body) : body[j] \in {"\n", "\t", "\r", "\\"}
          THEN Bad
          ELSE Good(PyStr(body), k + 1)
  ELSE Bad

\* an integer literal starting at index i: 0, or a run of digits that does
\* not start with 0
ParseNumber(t, i) ==
  IF t[i] = "0" THEN Good(PyInt(<<"0">>), i + 1)
  ELSE LET e == CHOOSE k \in (i + 1)..(Len(t) + 1) :
                  /\ (k = Len(t) + 1 \/ ~IsDigit(t[k]))
                  /\ \A j \in i..(k - 1) : IsDigit(t[j])
       IN Good(PyInt(SubSeq(t, i, e - 1)), e)

RECURSIVE ParseValue(_, _)
RECURSIVE ParseElements(_, _, _)
RECURSIVE ParseMembers(_, _, _)

\* the elements of an array, the next one expected at index i
ParseElements(t, i, acc) ==
  LET r == ParseValue(t, SkipJsonSpace(t, i))
  IN IF ~r.ok THEN Bad
     ELSE LET j == SkipJsonSpace(t, r.pos)
          IN IF j > Len(t) THEN Bad
             ELSE IF t[j] = "," THEN ParseElements(t, j + 1, Append(acc, r.val))
             ELSE IF t[j] = "]" THEN Good(PyList(Append(acc, r.val)), j + 1)
             ELSE Bad

\* the members of an object, the next key expected at index i
ParseMembers(t, i, acc) ==
  LET k == SkipJsonSpace(t, i)
  IN IF k > Len(t) \/ t[k] # "\"" THEN Bad
     ELSE LET key == ParseString(t, k)
          IN IF ~key.ok THEN Bad
             ELSE LET c == SkipJsonSpace(t, key.pos)
                  IN IF c > Len(t) \/ t[c] # ":" THEN Bad
                     ELSE LET r == ParseValue(t, SkipJsonSpace(t, c + 1))
                          IN IF ~r.ok THEN Bad
                             ELSE LET j == SkipJsonSpace(t, r.pos)
                                      acc2 == (key.val.v :> r.val) @@ acc
                                  IN IF j > Len(t) THEN Bad
                                     ELSE IF t[j] = ","
                                     THEN ParseMembers(t, j + 1, acc2)
                                     ELSE IF t[j] = "}"
                                     THEN Good(PyDict(acc2), j + 1)
                                     ELSE Bad

\* scan_once: the value that starts at index i
ParseValue(t, i) ==
  IF i > Len(t) THEN Bad
  ELSE IF t[i] = "\"" THEN ParseString(t, i)
  ELSE IF t[i] = "{"
       THEN LET j == SkipJsonSpace(t, i + 1)
            IN IF j <= Len(t) /\ t[j] = "}"
               THEN Good(PyDict(<<>>), j + 1)
               ELSE ParseMembers(t, i + 1, <<>>)
  ELSE IF t[i] = "["
       THEN LET j == SkipJsonSpace(t, i + 1)
            IN IF j <= Len(t) /\ t[j] = "]"
               THEN Good(PyList(<<>>), j + 1)
               ELSE ParseElements(t, i + 1, <<>>)
  ELSE IF HasWord(t, i, <<"n", "u", "l", "l">>) THEN Good(None, i + 4)
  ELSE IF HasWord(t, i, <<"t", "r", "u", "e">>) THEN Good(PyBool(TRUE), i + 4)
  ELSE IF HasWord(t, i, <<"f", "a", "l", "s", "e">>) THEN Good(PyBool(FALSE), i + 5)
  ELSE IF IsDigit(t[i]) THEN ParseNumber(t, i)
  ELSE Bad

\* json.loads(s): leading whitespace, one value, trailing whitespace, end
json_loads(s) ==
  LET r == ParseValue(s, SkipJsonSpace(s, 1))
  IN IF r.ok /\ SkipJsonSpace(s, r.pos) = Len(s) + 1
     THEN [ok |-> TRUE, val |-> r.val]
     ELSE [ok |-> FALSE, val |-> None]


(***************************************************************************)
(* generate_json                                                           *)
(***************************************************************************)

\* What the chat-completion endpoint does with one request: the call raises,
\* the response has an empty choices list, the message content is None, or
\* the content is a text.
Outcome(kind, text) == [kind |-> kind, text |-> text]

\* the exception, if any, that lines 35-47 raise on the endpoint's outcome,
\* and the value they compute otherwise
TryBody(o) ==
  IF o.kind = "raise" THEN [exc |-> "APIError", val |-> None]
  ELSE IF o.kind = "nochoices" THEN [exc |-> "IndexError", val |-> None]
  ELSE IF o.kind = "nullcontent" THEN [exc |-> "AttributeError", val |-> None]
  ELSE LET cleaned_text == clean_json_text(o.text)
           parsed == json_loads(cleaned_text)
       IN IF parsed.ok THEN [exc |-> "none", val |-> parsed.val]
          ELSE [exc |-> "JSONDecodeError", val |-> None]

\* the classes "except Exception" catches
CaughtByExcept(exc) ==
  exc \in {"APIError", "IndexError", "AttributeError", "JSONDecodeError"}

\* a variant whose handler catches the decode error alone
generate_json_narrow_except(o) ==
  LET b == TryBody(o)
  IN IF b.exc = "none" THEN [raised |-> FALSE, val |-> b.val]
     ELSE IF b.exc = "JSONDecodeError" THEN [raised |-> FALSE, val |-> None]
     ELSE [raised |-> TRUE, val |-> None]

\* the result of generate_json: the value returned, or raised = TRUE when an
\* exception leaves the function
generate_json(o) ==
  LET b == TryBody(o)
  IN IF b.exc = "none" THEN [raised |-> FALSE, val |-> b.val]
     ELSE IF CaughtByExcept(b.exc) THEN [raised |-> FALSE, val |-> None]
     ELSE [raised |-> TRUE, val |-> None]

(***************************************************************************)
(* Inputs of the normalizer and of the invoker                             *)
(***************************************************************************)

MaxChunks == 4
MaxBody == 2

Obj == <<"{", "\"", "a", "\"", ":", "1", "}">>
Arr == <<"[", "1", "]">>
Null == <<"n", "u", "l", "l">>

RECURSIVE Flatten(_)
Flatten(ss) == IF ss = <<>> THEN <<>> ELSE Head(ss) \o Flatten(Tail(ss))

\* the sequences of at most n elements of S
RECURSIVE SeqsUpTo(_, _)
SeqsUpTo(S, n) ==
  IF n = 0 THEN {<<>>}
  ELSE LET shorter == SeqsUpTo(S, n - 1)
       IN shorter \cup {Append(q, x) : q \in shorter, x \in S}

Chunks == {Fence, JsonTag, <<" ">>, <<"\n">>, Obj, Arr, Null, <<Tick>>, <<"x">>}

\* texts made of at most MaxChunks chunks
FreeTexts == {Flatten(q) : q \in SeqsUpTo(Chunks, MaxChunks)}

ContainsFence(t) == \E i \in 1..Len(t) : HasWord(t, i, Fence)

BodyChunks == {Obj, Arr, JsonTag, <<" ">>, <<Tick>>}

\* bodies: trimmed texts that hold no fence
Bodies ==
  {b \in {Flatten(q) : q \in SeqsUpTo(BodyChunks, MaxBody)} :
     Strip(b) = b /\ ~ContainsFence(b)}

Pads == {<<>>, <<" ">>, <<"\n", " ">>}
Gaps == {<<"\n">>, <<" ", "\n">>}

\* a fenced text: pad, fence, optional tag, gap, body, gap, fence, pad
Fenced(lead, tagged, gap1, body, gap2, trail) ==
  lead \o Fence \o (IF tagged THEN JsonTag ELSE <<>>) \o gap1 \o body
       \o gap2 \o Fence \o trail

NoShape == [fenced |-> FALSE, body |-> <<>>]


(***************************************************************************)
(* Inputs of /analyze                                                      *)
(***************************************************************************)

MaxPages == 2

Tasks == <<"analyzer", "optimizer", "coach">>

\* the flag of tasks that asks for a task, and the key of results it fills
Flag(k) ==
  CASE k = "analyzer" -> "runAtsAnalyzer"
    [] k = "optimizer" -> "runAtsOptimizer"
    [] k = "coach" -> "runInterviewCoach"

Slot(k) ==
  CASE k = "analyzer" -> "atsAnalyzer"
    [] k = "optimizer" -> "atsOptimizer"
    [] k = "coach" -> "interviewCoach"

Flags == {Flag(Tasks[i]) : i \in 1..Len(Tasks)}
Slots == {Slot(Tasks[i]) : i \in 1..Len(Tasks)}

\* the tasks form field: a text json.loads rejects, a JSON value that is not
\* an object, or an object whose flags are missing, false or true
TasksFields ==
  {[decodes |-> FALSE, isdict |-> FALSE, flags |-> [f \in Flags |-> "absent"]],
   [decodes |-> TRUE, isdict |-> FALSE, flags |-> [f \in Flags |-> "absent"]]}
  \cup {[decodes |-> TRUE, isdict |-> TRUE, flags |-> fl] :
          fl \in [Flags -> {"absent", "false", "true"}]}

\* an Optional[str] form field
NoStr == [some |-> FALSE, s |-> <<>>]
Str(s) == [some |-> TRUE, s |-> s]

\* truth value of an Optional[str]
Truthy(x) == x.some /\ x.s # <<>>

ResumeTexts == {NoStr, Str(<<>>), Str(<<" ">>), Str(<<"a">>)}
JobDescriptions == {NoStr, Str(<<"j", "d">>)}

\* what page.extract_text() returns for a page
PageTexts == {<<>>, <<"b">>}

NoFile == [present |-> FALSE, content_type |-> "", readable |-> FALSE, pages |-> <<>>]

\* an upload: its content type, whether PdfReader and the extraction go
\* through without an exception, and the text of each page
ResumeFiles ==
  {NoFile,
   [present |-> TRUE, content_type |-> "text/plain", readable |-> TRUE, pages |-> <<>>],
   [present |-> TRUE, content_type |-> "application/pdf", readable |-> FALSE, pages |-> <<>>]}
  \cup {[present |-> TRUE, content_type |-> "application/pdf", readable |-> TRUE,
         pages |-> ps] : ps \in SeqsUpTo(PageTexts, MaxPages)}

\* lines 66-68: the text of every page, each followed by a newline
RECURSIVE ExtractText(_)
ExtractText(pages) ==
  IF pages = <<>> THEN <<>>
  ELSE Head(pages) \o <<"\n">> \o ExtractText(Tail(pages))

\* the prompt an agent builds: the agent's template with the resume text and
\* the job description, or the template's words for a missing one
NotProvided == <<"N", "o", "t", " ", "p", "r", "o", "v", "i", "d", "e", "d">>

Prompt(agent, resume_text, job_description) ==
  [agent |-> agent,
   resume_text |-> resume_text,
   job_description |-> IF Truthy(job_description) THEN job_description.s
                       ELSE NotProvided]

\* what the endpoint may answer to a call of a request
Replies ==
  {Outcome("raise", <<>>), Outcome("nochoices", <<>>), Outcome("nullcontent", <<>>),
   Outcome("text", JsonTag \o Obj),
   Outcome("text", Null),
   Outcome("text", Arr),
   Outcome("text", Fence \o JsonTag \o <<"\n">> \o Obj \o <<"\n">> \o Fence)}

NoResults == [k \in Slots |-> None]
NoResponse == [status |-> 0, body |-> NoResults, detail |-> ""]

VARIABLES
  response,   \* the outcome of the endpoint call
  shape,      \* how the response text was put together
  n_pc,       \* "raw", "once", "twice", "invoked"
  once,       \* clean_json_text(text)
  twice,      \* clean_json_text(clean_json_text(text))
  ret,        \* what generate_json gave its caller
  req,                \* the /analyze request: its form fields
  pc,                 \* where the handler of the request is
  cur,                \* index in Tasks of the task at hand
  tasks_dict,         \* json.loads(tasks)
  final_resume_text,
  results,
  calls,              \* the completion calls issued for the request, in order
  reply,              \* the HTTP response: status 0 while there is none
  g_req,                  \* the /generate-answers request body
  g_pc,                   \* where the handler of that request is
  simplified_questions,
  g_call,                 \* what run_interview_answer_generator was given and asked
  g_reply                 \* the HTTP response: status 0 while there is none

nvars == <<response, shape, n_pc, once, twice, ret>>
avars == <<req, pc, cur, tasks_dict, final_resume_text, results, calls, reply>>
gvars == <<g_req, g_pc, simplified_questions, g_call, g_reply>>
vars == <<nvars, avars, gvars>>

NoReq == [tasks |-> [decodes |-> FALSE, isdict |-> FALSE,
                     flags |-> [f \in Flags |-> "absent"]],
          resumeText |-> NoStr, jobDescription |-> NoStr, resumeFile |-> NoFile]

\* no /analyze request under way
AnalyzeIdle ==
  /\ req = NoReq
  /\ pc = "idle"
  /\ cur = 0
  /\ tasks_dict = NoReq.tasks
  /\ final_resume_text = <<>>
  /\ results = NoResults
  /\ calls = <<>>
  /\ reply = NoResponse

NoRet == [raised |-> FALSE, val |-> None]

NoAnswersReq == [resumeText |-> <<>>, jobDescription |-> NoStr, questions |-> <<>>]
NoAnswersCall == [resume_text |-> <<>>, job_description |-> NotProvided,
                  questions |-> <<>>, questions_str |-> <<>>]
NoAnswersReply == [status |-> 0, body |-> None]

\* no /generate-answers request under way
AnswersIdle ==
  /\ g_req = NoAnswersReq
  /\ g_pc = "idle"
  /\ simplified_questions = <<>>
  /\ g_call = NoAnswersCall
  /\ g_reply = NoAnswersReply

\* no normalizer run under way
NormIdle ==
  /\ response = Outcome("raise", <<>>)
  /\ shape = NoShape
  /\ n_pc = "idle"
  /\ once = <<>>
  /\ twice = <<>>
  /\ ret = NoRet

(***************************************************************************)
(* /analyze: analyze_resume                                                *)
(***************************************************************************)

Init ==
  /\ NormIdle
  /\ AnswersIdle
  /\ req \in [tasks : TasksFields, resumeText : ResumeTexts,
              jobDescription : JobDescriptions, resumeFile : ResumeFiles]
  /\ pc = "parse_tasks"
  /\ cur = 0
  /\ tasks_dict = NoReq.tasks
  /\ final_resume_text = <<>>
  /\ results = NoResults
  /\ calls = <<>>
  /\ reply = NoResponse

\* raise HTTPException(status_code, detail), which ends the request
Raise(status, detail) ==
  /\ reply' = [status |-> status, body |-> NoResults, detail |-> detail]
  /\ pc' = "done"

\* lines 49-54
ParseTasks ==
  /\ pc = "parse_tasks"
  /\ IF req.tasks.decodes
     THEN /\ tasks_dict' = req.tasks
          /\ pc' = "file"
          /\ UNCHANGED reply
     ELSE /\ Raise(400, "Invalid JSON for tasks")
          /\ UNCHANGED tasks_dict
  /\ UNCHANGED <<req, cur, final_resume_text, results, calls, nvars, gvars>>

\* lines 56-76
HandleFile ==
  /\ pc = "file"
  /\ IF ~req.resumeFile.present
     THEN /\ pc' = "fallback"
          /\ UNCHANGED <<final_resume_text, reply>>
     ELSE IF req.resumeFile.content_type # "application/pdf"
     THEN /\ Raise(400, "Only PDF files are supported for upload.")
          /\ UNCHANGED final_resume_text
     ELSE IF ~req.resumeFile.readable
     THEN /\ Raise(400, "Error reading PDF")
          /\ UNCHANGED final_resume_text
     ELSE /\ final_resume_text' = ExtractText(req.resumeFile.pages)
          /\ pc' = "fallback"
          /\ UNCHANGED reply
  /\ UNCHANGED <<req, cur, tasks_dict, results, calls, nvars, gvars>>

\* a variant that falls back to resumeText when the extraction is blank
FallbackWhenBlank ==
  /\ pc = "fallback"
  /\ final_resume_text' =
       IF Strip(final_resume_text) = <<>> /\ Truthy(req.resumeText)
       THEN req.resumeText.s ELSE final_resume_text
  /\ pc' = "check_empty"
  /\ UNCHANGED <<req, cur, tasks_dict, results, calls, reply, nvars, gvars>>

\* lines 79-81
Fallback ==
  /\ pc = "fallback"
  /\ final_resume_text' =
       IF final_resume_text = <<>> /\ Truthy(req.resumeText)
       THEN req.resumeText.s ELSE final_resume_text
  /\ pc' = "check_empty"
  /\ UNCHANGED <<req, cur, tasks_dict, results, calls, reply, nvars, gvars>>

\* a variant that tests the text without trimming it
CheckEmptyUntrimmed ==
  /\ pc = "check_empty"
  /\ IF final_resume_text = <<>>
     THEN /\ Raise(400, "No resume text provided (either via file or text input).")
          /\ UNCHANGED <<results, cur>>
     ELSE /\ results' = NoResults
          /\ cur' = 1
          /\ pc' = "begin"
          /\ UNCHANGED reply
  /\ UNCHANGED <<req, tasks_dict, final_resume_text, calls, nvars, gvars>>

\* lines 83-91
CheckEmpty ==
  /\ pc = "check_empty"
  /\ IF Strip(final_resume_text) = <<>>
     THEN /\ Raise(400, "No resume text provided (either via file or text input).")
          /\ UNCHANGED <<results, cur>>
     ELSE /\ results' = NoResults
          /\ cur' = 1
          /\ pc' = "begin"
          /\ UNCHANGED reply
  /\ UNCHANGED <<req, tasks_dict, final_resume_text, calls, nvars, gvars>>

\* the step after the task at index i
AfterTask(i) ==
  IF i < Len(Tasks)
  THEN /\ cur' = i + 1
       /\ pc' = "begin"
  ELSE /\ cur' = i
       /\ pc' = "return"

\* lines 93-95, 98-100, 103-105: the test of the task's flag and, when it is
\* set, the agent's completion call; a tasks value without get() raises, which
\* line 112 turns into a 500
BeginTask ==
  /\ pc = "begin"
  /\ IF ~tasks_dict.isdict
     THEN /\ Raise(500, "AttributeError")
          /\ UNCHANGED <<cur, calls>>
     ELSE IF tasks_dict.flags[Flag(Tasks[cur])] = "true"
     THEN /\ calls' = Append(calls,
                 [prompt |-> Prompt(Tasks[cur], final_resume_text, req.jobDescription),
                  state |-> "pending", outcome |-> Outcome("raise", <<>>)])
          /\ pc' = "await"
          /\ UNCHANGED <<cur, reply>>
     ELSE /\ AfterTask(cur)
          /\ UNCHANGED <<calls, reply>>
  /\ UNCHANGED <<req, tasks_dict, final_resume_text, results, nvars, gvars>>

\* the call of the task at hand ends with outcome o and generate_json result r
Returned(o, r) ==
  IF r.raised
  THEN /\ Raise(500, "Exception")
       /\ calls' = [calls EXCEPT ![Len(calls)].state = "returned",
                                 ![Len(calls)].outcome = o]
       /\ UNCHANGED <<results, cur>>
  ELSE /\ results' = [results EXCEPT ![Slot(Tasks[cur])] = r.val]
       /\ calls' = [calls EXCEPT ![Len(calls)].state = "returned",
                                 ![Len(calls)].outcome = o]
       /\ AfterTask(cur)
       /\ UNCHANGED reply

\* a variant that calls the endpoint once more after a failed completion
EndTaskRetry ==
  /\ pc = "await"
  /\ \E o \in Replies :
       LET r == generate_json(o)
       IN IF r.val = None /\ Len(calls) < Len(Tasks) + 1
          THEN /\ calls' = Append([calls EXCEPT ![Len(calls)].state = "returned",
                                                ![Len(calls)].outcome = o],
                                  [calls[Len(calls)] EXCEPT !.state = "pending"])
               /\ UNCHANGED <<results, cur, pc, reply>>
          ELSE Returned(o, r)
  /\ UNCHANGED <<req, tasks_dict, final_resume_text, nvars, gvars>>

\* a variant that gives up on the request when a task has no result
EndTaskAbort ==
  /\ pc = "await"
  /\ \E o \in Replies :
       LET r == generate_json(o)
       IN Returned(o, [r EXCEPT !.raised = (r.val = None)])
  /\ UNCHANGED <<req, tasks_dict, final_resume_text, nvars, gvars>>

\* lines 95-96, 100-101, 105-106: the awaited agent returns what
\* generate_json made of the endpoint's answer
EndTask ==
  /\ pc = "await"
  /\ \E o \in Replies : Returned(o, generate_json(o))
  /\ UNCHANGED <<req, tasks_dict, final_resume_text, nvars, gvars>>

\* a variant that returns the slots of the tasks asked for alone
ReturnResultsRequestedOnly ==
  /\ pc = "return"
  /\ reply' = [status |-> 200,
               body |-> [k \in {Slot(Tasks[i]) : i \in
                                  {j \in 1..Len(Tasks) :
                                     tasks_dict.flags[Flag(Tasks[j])] = "true"}}
                           |-> results[k]],
               detail |-> ""]
  /\ pc' = "done"
  /\ UNCHANGED <<req, cur, tasks_dict, final_resume_text, results, calls, nvars, gvars>>

\* line 108
ReturnResults ==
  /\ pc = "return"
  /\ reply' = [status |-> 200, body |-> results, detail |-> ""]
  /\ pc' = "done"
  /\ UNCHANGED <<req, cur, tasks_dict, final_resume_text, results, calls, nvars, gvars>>

Next ==
  \/ ParseTasks
  \/ HandleFile
  \/ Fallback
  \/ CheckEmpty
  \/ BeginTask
  \/ EndTask
  \/ ReturnResults

Spec == Init /\ [][Next]_vars

(***************************************************************************)
(* The normalizer and the invoker on every response                        *)
(***************************************************************************)

NormInit ==
  /\ AnalyzeIdle
  /\ AnswersIdle
  /\ \/ /\ response \in {Outcome(k, <<>>) : k \in {"raise", "nochoices", "nullcontent"}}
        /\ shape = NoShape
     \/ /\ \E t \in FreeTexts : response = Outcome("text", t)
        /\ shape = NoShape
     \/ \E lead \in Pads, tagged \in BOOLEAN, gap1 \in Gaps, body \in Bodies,
           gap2 \in Gaps, trail \in Pads :
          /\ response = Outcome("text", Fenced(lead, tagged, gap1, body, gap2, trail))
          /\ shape = [fenced |-> TRUE, body |-> body]
  /\ n_pc = "raw"
  /\ once = <<>>
  /\ twice = <<>>
  /\ ret = NoRet

\* the normalizer applied to the response text
Clean ==
  /\ n_pc = "raw"
  /\ response.kind = "text"
  /\ once' = clean_json_text(response.text)
  /\ n_pc' = "once"
  /\ UNCHANGED <<response, shape, twice, ret, avars, gvars>>

\* the normalizer applied to its own output
CleanAgain ==
  /\ n_pc = "once"
  /\ twice' = clean_json_text(once)
  /\ n_pc' = "twice"
  /\ UNCHANGED <<response, shape, once, ret, avars, gvars>>

\* generate_json run on the response
Invoke ==
  /\ n_pc \in {"raw", "twice"}
  /\ (n_pc = "raw" => response.kind # "text")
  /\ ret' = generate_json(response)
  /\ n_pc' = "invoked"
  /\ UNCHANGED <<response, shape, once, twice, avars, gvars>>

NormNext == Clean \/ CleanAgain \/ Invoke

SpecNorm == NormInit /\ [][NormNext]_vars

(***************************************************************************)
(* /generate-answers: generate_answers                                     *)
(***************************************************************************)

MaxQuestions == 2

KId == <<"i", "d">>
KQuestion == <<"q", "u", "e", "s", "t", "i", "o", "n">>
KDifficulty == <<"d", "i", "f", "f", "i", "c", "u", "l", "t", "y">>

\* a dict: a function from keys to values
EmptyDict == <<>>

\* dict.get(key)
Get(d, key) == IF key \in DOMAIN d THEN d[key] ELSE None

\* the part of a question record under one key: nothing, or one of vals
Field(key, vals) == {EmptyDict} \cup {key :> v : v \in vals}

\* the question records a request may hold
Questions ==
  {i @@ q @@ d :
     i \in Field(KId, {PyStr(<<"Q", "1">>), PyInt(<<"2">>)}),
     q \in Field(KQuestion, {PyStr(<<"w", "h", "y">>)}),
     d \in Field(KDifficulty, {PyStr(<<"E", "a", "s", "y">>)})}

\* json.dumps of a string, an integer or None
DumpsValue(v) ==
  CASE v.type = "str" -> <<"\"">> \o v.v \o <<"\"">>
    [] v.type = "int" -> v.v
    [] v.type = "None" -> Null

\* json.dumps of a dict whose keys were inserted in the order keys
RECURSIVE DumpsItems(_, _)
DumpsItems(d, keys) ==
  IF keys = <<>> THEN <<>>
  ELSE <<"\"">> \o Head(keys) \o <<"\"", ":", " ">> \o DumpsValue(d[Head(keys)])
       \o (IF Len(keys) > 1 THEN <<",", " ">> ELSE <<>>)
       \o DumpsItems(d, Tail(keys))

\* the keys of a simplified question present in d, in insertion order
KeyOrder(d) == SelectSeq(<<KId, KQuestion, KDifficulty>>, LAMBDA k : k \in DOMAIN d)

\* json.dumps of a list of dicts
RECURSIVE DumpsList(_)
DumpsList(ds) ==
  IF ds = <<>> THEN <<>>
  ELSE <<"{">> \o DumpsItems(Head(ds), KeyOrder(Head(ds))) \o <<"}">>
       \o (IF Len(ds) > 1 THEN <<",", " ">> ELSE <<>>)
       \o DumpsList(Tail(ds))

json_dumps(ds) == <<"[">> \o DumpsList(ds) \o <<"]">>

\* a variant that keeps every field of the question
SimplifyKeepAll(q) == q @@ (KId :> Get(q, KId)) @@ (KQuestion :> Get(q, KQuestion))

\* line 129, one element: {"id": q.get("id"), "question": q.get("question")}
Simplify(q) == (KId :> Get(q, KId)) @@ (KQuestion :> Get(q, KQuestion))

AnswersInit ==
  /\ NormIdle
  /\ AnalyzeIdle
  /\ g_req \in [resumeText : {<<"a">>}, jobDescription : JobDescriptions,
                questions : SeqsUpTo(Questions, MaxQuestions)]
  /\ g_pc = "simplify"
  /\ simplified_questions = <<>>
  /\ g_call = NoAnswersCall
  /\ g_reply = NoAnswersReply

\* line 129
SimplifyQuestions ==
  /\ g_pc = "simplify"
  /\ simplified_questions' =
       [i \in 1..Len(g_req.questions) |-> Simplify(g_req.questions[i])]
  /\ g_pc' = "forward"
  /\ UNCHANGED <<g_req, g_call, g_reply, nvars, avars>>

\* lines 131-135 and 170-194: the agent is given the simplified list and
\* writes its json.dumps into the prompt of the completion call
ForwardQuestions ==
  /\ g_pc = "forward"
  /\ g_call' = [resume_text |-> g_req.resumeText,
                job_description |-> IF Truthy(g_req.jobDescription)
                                    THEN g_req.jobDescription.s ELSE NotProvided,
                questions |-> simplified_questions,
                questions_str |-> json_dumps(simplified_questions)]
  /\ g_pc' = "await"
  /\ UNCHANGED <<g_req, simplified_questions, g_reply, nvars, avars>>

\* lines 136-139: the agent's result is the response; an exception is a 500
AnswersReturn ==
  /\ g_pc = "await"
  /\ \E o \in Replies :
       LET r == generate_json(o)
       IN g_reply' = IF r.raised THEN [status |-> 500, body |-> None]
                     ELSE [status |-> 200, body |-> r.val]
  /\ g_pc' = "done"
  /\ UNCHANGED <<g_req, simplified_questions, g_call, nvars, avars>>

AnswersNext == SimplifyQuestions \/ ForwardQuestions \/ AnswersReturn

SpecAnswers == AnswersInit /\ [][AnswersNext]_vars

(***************************************************************************)
(* Properties                                                              *)
(***************************************************************************)

\* the completion failed: lines 35-47 raised
Failed(o) == TryBody(o).exc # "none"

\* the text parses as JSON once normalized
ParsesAfterCleaning(o) == o.kind = "text" /\ json_loads(clean_json_text(o.text)).ok

\* C1: generate_json never raises; it returns None whenever the endpoint call
\* raises, the response has no choices or no content, or the normalized text
\* is not JSON; and a result other than None comes only from a text that
\* parses as JSON after normalization.
C1_NeverRaises ==
  n_pc = "invoked" =>
    /\ ~ret.raised
    /\ (~ParsesAfterCleaning(response) => ret.val = None)
    /\ (ret.val # None => ParsesAfterCleaning(response))
    /\ (ParsesAfterCleaning(response) =>
          ret.val = json_loads(clean_json_text(response.text)).val)

C1_Witness ==
  /\ n_pc = "invoked"
  /\ response.kind = "text"
  /\ StartsWith(response.text, Fence)
  /\ ~ParsesAfterCleaning(response)
  /\ ret = [raised |-> FALSE, val |-> None]

\* C5: clean_json_text is idempotent on every text, texts whose body begins
\* or ends with a fence included.
C5_Idempotent ==
  n_pc \in {"twice", "invoked"} /\ response.kind = "text" => twice = once

\* C6: generate_json returns a mapping or None and nothing else, and None
\* only when the completion failed.
C6_MappingOrAbsence ==
  n_pc = "invoked" =>
    /\ ret.val.type \in {"dict", "None"}
    /\ (ret.val = None => Failed(response))

\* C7: a fenced text (pad, fence, optional json tag, whitespace, a trimmed
\* body without a fence, whitespace, fence, pad) is normalized to its body,
\* and a text whose trimmed form does not begin with a fence is normalized to
\* its trimmed form.
C7_FencedBody ==
  n_pc \in {"once", "twice", "invoked"} /\ response.kind = "text" =>
    /\ (shape.fenced => once = shape.body)
    /\ (~StartsWith(Strip(response.text), Fence) => once = Strip(response.text))

C7_Witness ==
  /\ n_pc = "once"
  /\ shape.fenced
  /\ shape.body = Obj
  /\ StartsWith(response.text, <<"\n", " ">> \o Fence \o JsonTag)
  /\ once = Obj

\* the request asks for task k
Requested(k) == req.tasks.isdict /\ req.tasks.flags[Flag(k)] = "true"

\* the indices in calls of the completion calls of task k
CallsOf(k) == {c \in 1..Len(calls) : calls[c].prompt.agent = k}

TaskSet == {Tasks[i] : i \in 1..Len(Tasks)}

\* C2: a request that is answered 200 returns exactly the three keys; the
\* slot of a task that was not asked for or whose completion failed is None;
\* and once a task has run the request is answered 200, whatever the
\* completions did.
C2_ThreeSlots ==
  pc = "done" =>
    /\ reply.status \in {200, 400, 500}
    /\ (reply.status = 200 =>
          /\ DOMAIN reply.body = {"atsAnalyzer", "atsOptimizer", "interviewCoach"}
          /\ \A k \in TaskSet :
               (~Requested(k) \/ \E c \in CallsOf(k) : Failed(calls[c].outcome))
                  => reply.body[Slot(k)] = None)
    /\ (calls # <<>> => reply.status = 200)

C2_Witness ==
  /\ pc = "done"
  /\ reply.status = 200
  /\ Requested("analyzer") /\ ~Requested("optimizer") /\ Requested("coach")
  /\ calls[1].outcome.kind = "raise"
  /\ reply.body["atsAnalyzer"] = None
  /\ reply.body["atsOptimizer"] = None
  /\ reply.body["interviewCoach"].type = "dict"

\* C3: when a completion of a request fails, the request is still answered
\* 200, every task asked for has been invoked once, each slot holds what its
\* own completion produced, and the slot of the failed task is None.
C3_SiblingsIntact ==
  pc = "done" /\ (\E c \in 1..Len(calls) : Failed(calls[c].outcome)) =>
    /\ reply.status = 200
    /\ \A k \in TaskSet :
         Requested(k) =>
           /\ Cardinality(CallsOf(k)) = 1
           /\ \A c \in CallsOf(k) :
                /\ calls[c].state = "returned"
                /\ Failed(calls[c].outcome) => reply.body[Slot(k)] = None
                /\ ~Failed(calls[c].outcome) =>
                     reply.body[Slot(k)] =
                       json_loads(clean_json_text(calls[c].outcome.text)).val

C3_Witness ==
  /\ pc = "done"
  /\ reply.status = 200
  /\ Len(calls) = 3
  /\ calls[1].outcome.kind = "text" /\ reply.body["atsAnalyzer"].type = "dict"
  /\ calls[2].outcome.kind = "nullcontent" /\ reply.body["atsOptimizer"] = None
  /\ calls[3].outcome.kind = "text" /\ reply.body["interviewCoach"].type = "dict"

\* the request has a structural failure: tasks is not JSON, the upload is not
\* a PDF, or the resume content is empty once trimmed
StructuralFailure ==
  \/ ~req.tasks.decodes
  \/ req.resumeFile.present /\ req.resumeFile.content_type # "application/pdf"
  \/ Strip(final_resume_text) = <<>>

\* C4: a request with a structural failure ends with a 400 and no completion
\* call is ever issued for it.
C4_StructuralAbort ==
  StructuralFailure =>
    /\ calls = <<>>
    /\ (pc = "done" => reply.status = 400)

C4_Witness ==
  /\ pc = "done"
  /\ reply.status = 400
  /\ req.tasks.decodes /\ Requested("analyzer")
  /\ ~req.resumeFile.present
  /\ req.resumeText = Str(<<" ">>)
  /\ calls = <<>>

\* the place of task k in the order of the tasks
Place(k) == CHOOSE i \in 1..Len(Tasks) : Tasks[i] = k

PastFallback ==
  \/ pc \in {"check_empty", "begin", "await", "return"}
  \/ pc = "done" /\ reply.detail \notin {"Invalid JSON for tasks",
                                          "Only PDF files are supported for upload.",
                                          "Error reading PDF"}

\* C10: resumeText is the resume exactly when no file was uploaded or the
\* extraction gave the empty string; otherwise the extracted text is the
\* resume, every agent is given it, and a blank extraction ends the request
\* with a 400 whatever resumeText holds.
C10_ResumeSource ==
  LET extracted == ExtractText(req.resumeFile.pages)
      fromText == ~req.resumeFile.present \/ extracted = <<>>
  IN PastFallback =>
       /\ final_resume_text =
            IF fromText
            THEN (IF req.resumeText.some THEN req.resumeText.s ELSE <<>>)
            ELSE extracted
       /\ \A c \in 1..Len(calls) : calls[c].prompt.resume_text = final_resume_text
       /\ (pc = "done" /\ ~fromText /\ Strip(extracted) = <<>> =>
             reply.status = 400 /\ calls = <<>>)

C10_Witness ==
  /\ pc = "done"
  /\ reply.status = 400
  /\ req.resumeFile.present
  /\ req.resumeFile.pages = <<<<>>>>
  /\ final_resume_text = <<"\n">>
  /\ req.resumeText = Str(<<"a">>)
  /\ Requested("coach")

\* what /generate-answers has to forward for the questions qs
ExpectedQuestion(q) ==
  [k \in {KId, KQuestion} |-> IF k \in DOMAIN q THEN q[k] ELSE None]

\* C8: the agent is given a list as long as the request's questions, in the
\* same order, each element with the keys id and question alone and the
\* request's values for them (None for a missing one); the prompt holds that
\* list; and the request's question records never change.
C8_Forwarded ==
  /\ [](g_pc \in {"await", "done"} =>
          /\ Len(g_call.questions) = Len(g_req.questions)
          /\ \A i \in 1..Len(g_req.questions) :
               g_call.questions[i] = ExpectedQuestion(g_req.questions[i])
          /\ json_loads(g_call.questions_str) =
               [ok |-> TRUE,
                val |-> PyList([i \in 1..Len(g_req.questions) |->
                                  PyDict(ExpectedQuestion(g_req.questions[i]))])])
  /\ [][g_req' = g_req]_vars

C8_Witness ==
  /\ g_pc = "await"
  /\ Len(g_req.questions) = 2
  /\ DOMAIN g_req.questions[1] = {KId, KQuestion, KDifficulty}
  /\ DOMAIN g_req.questions[2] = {KDifficulty}
  /\ g_call.questions[1] = (KId :> PyInt(<<"2">>)) @@ (KQuestion :> PyStr(<<"w", "h", "y">>))
  /\ g_call.questions[2] = (KId :> None) @@ (KQuestion :> None)

=============================================================================
